---------------------------- MODULE Spec2Model ----------------------------
(***************************************************************************)
(* Madgwick orientation filter (ahrs/filters/madgwick.py).                 *)
(*                                                                         *)
(* Floats.  The filter works on numpy float arrays.  A float is a record:  *)
(* a finite value is a fixed-point number with ScaleBits fractional bits   *)
(* ([k |-> "fin", v |-> n] stands for n / 2^ScaleBits), and the IEEE-754   *)
(* specials are kept apart ([k |-> "nan"], [k |-> "inf", v |-> sign]).     *)
(* The arithmetic follows IEEE-754 on the specials (0/0 = nan, x/0 = inf,  *)
(* inf - inf = nan, inf * 0 = nan, nan == 0 is false) and rounds finite    *)
(* results to the nearest representable value.  numpy divides by zero      *)
(* with a warning, not an exception.                                       *)
(*                                                                         *)
(* Arrays.  g, a, m and q are numpy arrays the caller owns; a /= x and     *)
(* q /= x write into them, and the q returned is the caller's array.       *)
(*                                                                         *)
(* Configuration.  The class body binds the name __dict__ to a dict, so    *)
(* self.__dict__ is that one dict for every instance (clsDict).            *)
(*                                                                         *)
(* Specifications.  Spec and SpecDet: a sequential caller that constructs  *)
(* instances and makes update calls, each call one step; the caller holds  *)
(* the arrays of one call at a time (last) and drops them before its next  *)
(* call.  SpecConc: two threads, one per sensor stream, run updates on one *)
(* shared instance, interleaved line by line.                              *)
(***************************************************************************)
EXTENDS Integers, Sequences, FiniteSets, TLC

\* Fractional bits of a finite float of the model.
ScaleBits == 10

Scale == 2 ^ ScaleBits

----------------------------------------------------------------------------
(* Floats *)

Fin(n) == [k |-> "fin", v |-> n]
NaN == [k |-> "nan", v |-> 0]
Inf(s) == [k |-> "inf", v |-> s]

IsFinite(x) == x.k = "fin"
IsNaN(x) == x.k = "nan"

Abs(n) == IF n < 0 THEN -n ELSE n
Sgn(n) == IF n < 0 THEN -1 ELSE 1

\* n / d rounded to the nearest integer, halves away from zero.
RoundDiv(n, d) == Sgn(n) * Sgn(d) * ((2 * Abs(n) + Abs(d)) \div (2 * Abs(d)))

\* The float of the integer literal i, and of the decimal literal n/d.
FromInt(i) == Fin(i * Scale)
FromRatio(n, d) == Fin(RoundDiv(n * Scale, d))

SignOf(x) == IF x.v < 0 THEN -1 ELSE 1

FNeg(x) == IF x.k = "nan" THEN NaN ELSE [k |-> x.k, v |-> -x.v]

FAdd(x, y) ==
    IF x.k = "nan" \/ y.k = "nan" THEN NaN
    ELSE IF x.k = "inf" /\ y.k = "inf" THEN (IF x.v = y.v THEN x ELSE NaN)
    ELSE IF x.k = "inf" THEN x
    ELSE IF y.k = "inf" THEN y
    ELSE Fin(x.v + y.v)

FSub(x, y) == FAdd(x, FNeg(y))

FMul(x, y) ==
    IF x.k = "nan" \/ y.k = "nan" THEN NaN
    ELSE IF x.k = "inf" \/ y.k = "inf"
         THEN (IF x.v = 0 \/ y.v = 0 THEN NaN ELSE Inf(SignOf(x) * SignOf(y)))
    ELSE Fin(RoundDiv(x.v * y.v, Scale))

FDiv(x, y) ==
    IF x.k = "nan" \/ y.k = "nan" THEN NaN
    ELSE IF x.k = "inf" THEN (IF y.k = "inf" THEN NaN ELSE Inf(SignOf(x) * SignOf(y)))
    ELSE IF y.k = "inf" THEN Fin(0)
    ELSE IF y.v = 0 THEN (IF x.v = 0 THEN NaN ELSE Inf(SignOf(x)))
    ELSE Fin(RoundDiv(x.v * Scale, y.v))

\* x == 0 of Python: false for nan and inf.
FEqZero(x) == x.k = "fin" /\ x.v = 0

RECURSIVE SqrtIter(_, _, _)
SqrtIter(n, r, b) ==
    IF b = 0 THEN r
    ELSE LET t == r + b
         IN  IF t <= 46340 /\ t * t <= n
             THEN SqrtIter(n, t, b \div 2)
             ELSE SqrtIter(n, r, b \div 2)

\* The integer nearest to the square root of n >= 0.
ISqrt(n) ==
    LET r == SqrtIter(n, 0, 32768)
    IN  IF n - r * r > r THEN r + 1 ELSE r

----------------------------------------------------------------------------
(* numpy arrays: sequences of floats *)

AllFinite(v) == \A i \in DOMAIN v : IsFinite(v[i])
AnyNaN(v) == \E i \in DOMAIN v : IsNaN(v[i])

RECURSIVE SumSquares(_, _)
SumSquares(v, i) == IF i = 0 THEN 0 ELSE v[i].v * v[i].v + SumSquares(v, i - 1)

\* np.linalg.norm(v): the 2-norm.  On fixed-point numbers n_i / Scale it is
\* sqrt(sum n_i^2) / Scale, so it is zero exactly when every component is.
Norm(v) ==
    IF AnyNaN(v) THEN NaN
    ELSE IF ~AllFinite(v) THEN Inf(1)
    ELSE Fin(ISqrt(SumSquares(v, Len(v))))

\* v / s, the value an in-place v /= s leaves in a 3- or 4-element array.
VDiv(v, s) ==
    IF Len(v) = 3
    THEN << FDiv(v[1], s), FDiv(v[2], s), FDiv(v[3], s) >>
    ELSE << FDiv(v[1], s), FDiv(v[2], s), FDiv(v[3], s), FDiv(v[4], s) >>

\* Elementwise u + v, u - v and s * v on 4-element arrays.
VAdd(u, v) == << FAdd(u[1], v[1]), FAdd(u[2], v[2]), FAdd(u[3], v[3]), FAdd(u[4], v[4]) >>
VSub(u, v) == << FSub(u[1], v[1]), FSub(u[2], v[2]), FSub(u[3], v[3]), FSub(u[4], v[4]) >>
VScale(s, v) == << FMul(s, v[1]), FMul(s, v[2]), FMul(s, v[3]), FMul(s, v[4]) >>


----------------------------------------------------------------------------
(* Float arithmetic written infix, as the source writes it *)

x (+) y == FAdd(x, y)
x (-) y == FSub(x, y)
x (.) y == FMul(x, y)

Zero == FromInt(0)
Two == FromInt(2)
Four == FromInt(4)
Half == FromRatio(1, 2)

----------------------------------------------------------------------------
(* ahrs.common.orientation: quaternions are 4-element arrays (w, x, y, z) *)

\* q_prod(p, q): the Hamilton product.
q_prod(p, q) ==
    << (((p[1] (.) q[1]) (-) (p[2] (.) q[2])) (-) (p[3] (.) q[3])) (-) (p[4] (.) q[4]),
       (((p[1] (.) q[2]) (+) (p[2] (.) q[1])) (+) (p[3] (.) q[4])) (-) (p[4] (.) q[3]),
       (((p[1] (.) q[3]) (-) (p[2] (.) q[4])) (+) (p[3] (.) q[1])) (+) (p[4] (.) q[2]),
       (((p[1] (.) q[4]) (+) (p[2] (.) q[3])) (-) (p[3] (.) q[2])) (+) (p[4] (.) q[1]) >>

\* q_conj(q): the vector part negated.
q_conj(q) == << q[1], FNeg(q[2]), FNeg(q[3]), FNeg(q[4]) >>

----------------------------------------------------------------------------
(* Madgwick.updateIMU and Madgwick.updateMARG *)

\* J.T @ F for a list J of rows (4 columns each) and a list F of as many floats.
RECURSIVE ColDot(_, _, _, _)
ColDot(J, F, c, r) ==
    IF r = 0 THEN Zero ELSE ColDot(J, F, c, r - 1) (+) (J[r][c] (.) F[r])

JTF(J, F) ==
    << ColDot(J, F, 1, Len(F)), ColDot(J, F, 2, Len(F)),
       ColDot(J, F, 3, Len(F)), ColDot(J, F, 4, Len(F)) >>

\* What a call leaves behind: the caller's arrays g, a, m, q as they are after the
\* call (a, m and q are divided in place), the array returned (the caller's q: the
\* same object) and how the call ended.
Outcome(g, a, m, q) == [g |-> g, a |-> a, m |-> m, q |-> q, ret |-> q, outcome |-> "return"]

\* Lines 71-74 and 139-142: the normalised descent direction and the rate of
\* change of the quaternion.  step0 = J.T @ F is divided by its norm unguarded.
QDot(g, q, step0, beta) ==
    LET step == VDiv(step0, Norm(step0))
    IN  VSub(VScale(Half, q_prod(q, <<Zero, g[1], g[2], g[3]>>)), VScale(beta, step))

\* Lines 76 and 144: q += qDot*samplePeriod.
Advance(q, qDot, samplePeriod) == VAdd(q, VScale(samplePeriod, qDot))

\* Lines 71-77 and 139-145 together.
Integrate(g, q, step0, beta, samplePeriod) ==
    LET q1 == Advance(q, QDot(g, q, step0, beta), samplePeriod)
    IN  VDiv(q1, Norm(q1))

\* The gravity rows of F and J (lines 65-70, 127-129, 133-135).
GravityF(q, a) ==
    LET qw == q[1]  qx == q[2]  qy == q[3]  qz == q[4]
    IN  << (Two (.) ((qx (.) qz) (-) (qw (.) qy))) (-) a[1],
           (Two (.) ((qw (.) qx) (+) (qy (.) qz))) (-) a[2],
           (Two (.) ((Half (-) (qx (.) qx)) (-) (qy (.) qy))) (-) a[3] >>

GravityJ(q) ==
    LET qw == q[1]  qx == q[2]  qy == q[3]  qz == q[4]
    IN  << << FNeg(Two (.) qy), Two (.) qz, FNeg(Two (.) qw), Two (.) qx >>,
           << Two (.) qx, Two (.) qw, Two (.) qz, Two (.) qy >>,
           << Zero, FNeg(Four (.) qx), FNeg(Four (.) qy), Zero >> >>

\* step = J.T @ F of updateIMU (lines 65-71), from the normalised a and q.
StepIMU(a, q) == JTF(GravityJ(q), GravityF(q, a))

\* Mutant: q is normalised (line 62) before the accelerometer check (line 58).
IMUBodyNormFirst(g, a, q, beta, samplePeriod) ==
    LET a_norm == Norm(a)
        q1 == VDiv(q, Norm(q))
    IN  IF FEqZero(a_norm) THEN Outcome(g, a, <<>>, q1)
        ELSE LET a1 == VDiv(a, a_norm)
                 q2 == Integrate(g, q1, StepIMU(a1, q1), beta, samplePeriod)
             IN  Outcome(g, a1, <<>>, q2)

\* updateIMU(g, a, q) with beta and samplePeriod resolved (lines 57-78).
IMUBody(g, a, q, beta, samplePeriod) ==
    LET a_norm == Norm(a)
    IN  IF FEqZero(a_norm) THEN Outcome(g, a, <<>>, q)
        ELSE LET a1 == VDiv(a, a_norm)
                 q1 == VDiv(q, Norm(q))
                 q2 == Integrate(g, q1, StepIMU(a1, q1), beta, samplePeriod)
             IN  Outcome(g, a1, <<>>, q2)

\* The magnetic rows of F and J (lines 130-132, 136-138), b = (0, bx, 0, bz).
MagneticF(q, m, bx, bz) ==
    LET qw == q[1]  qx == q[2]  qy == q[3]  qz == q[4]
        T2(u, v) == (Two (.) u) (.) v
    IN  << (T2(bx, (Half (-) (qy (.) qy)) (-) (qz (.) qz))
                (+) T2(bz, (qx (.) qz) (-) (qw (.) qy))) (-) m[1],
           (T2(bx, (qx (.) qy) (-) (qw (.) qz))
                (+) T2(bz, (qw (.) qx) (+) (qy (.) qz))) (-) m[2],
           (T2(bx, (qw (.) qy) (+) (qx (.) qz))
                (+) T2(bz, (Half (-) (qx (.) qx)) (-) (qy (.) qy))) (-) m[3] >>

MagneticJ(q, bx, bz) ==
    LET qw == q[1]  qx == q[2]  qy == q[3]  qz == q[4]
        T2(u, v) == (Two (.) u) (.) v
        T4(u, v) == (Four (.) u) (.) v
    IN  << << FNeg(T2(bz, qy)), T2(bz, qz),
              FNeg(T4(bx, qy)) (-) T2(bz, qw), FNeg(T4(bx, qz)) (+) T2(bz, qx) >>,
           << FNeg(T2(bx, qz)) (+) T2(bz, qx), T2(bx, qy) (+) T2(bz, qw),
              T2(bx, qx) (+) T2(bz, qz), FNeg(T2(bx, qw)) (+) T2(bz, qy) >>,
           << T2(bx, qy), T2(bx, qz) (-) T4(bz, qx),
              T2(bx, qw) (-) T4(bz, qy), T2(bx, qx) >> >>

\* step = J.T @ F of updateMARG (lines 124-139), from the normalised a, m and q.
StepMARG(a, m, q) ==
    LET h  == q_prod(q, q_prod(<<Zero, m[1], m[2], m[3]>>, q_conj(q)))
        bx == Norm(<<h[2], h[3]>>)
        bz == h[4]
    IN  JTF(GravityJ(q) \o MagneticJ(q, bx, bz), GravityF(q, a) \o MagneticF(q, m, bx, bz))

\* Mutant: q is normalised (line 121) before the magnetometer check (line 117).
MARGBodyLateMagCheck(g, a, m, q, beta, samplePeriod) ==
    LET a_norm == Norm(a)
    IN  IF FEqZero(a_norm) THEN Outcome(g, a, m, q)
        ELSE LET a1 == VDiv(a, a_norm)
                 q1 == VDiv(q, Norm(q))
                 m_norm == Norm(m)
             IN  IF FEqZero(m_norm) THEN Outcome(g, a1, m, q1)
                 ELSE LET m1 == VDiv(m, m_norm)
                          q2 == Integrate(g, q1, StepMARG(a1, m1, q1), beta, samplePeriod)
                      IN  Outcome(g, a1, m1, q2)

\* updateMARG(g, a, m, q) with beta and samplePeriod resolved (lines 110-146).
MARGBody(g, a, m, q, beta, samplePeriod) ==
    LET a_norm == Norm(a)
    IN  IF FEqZero(a_norm) THEN Outcome(g, a, m, q)
        ELSE LET a1 == VDiv(a, a_norm)
                 m_norm == Norm(m)
             IN  IF FEqZero(m_norm) THEN Outcome(g, a1, m, q)
                 ELSE LET m1 == VDiv(m, m_norm)
                          q1 == VDiv(q, Norm(q))
                          q2 == Integrate(g, q1, StepMARG(a1, m1, q1), beta, samplePeriod)
                      IN  Outcome(g, a1, m1, q2)

----------------------------------------------------------------------------
(* Configuration: Madgwick.__dict__ and the keyword arguments *)

\* A keyword argument that was not passed.
Absent == [k |-> "absent", v |-> 0]

\* **kwargs of a constructor or an update call: beta and samplePeriod, each passed
\* or not.
Kw(b, s) == [beta |-> b, samplePeriod |-> s]
NoKw == Kw(Absent, Absent)

\* The class attribute __dict__ as the class statement leaves it (lines 22-25).
DefaultDict == [beta |-> FromRatio(1, 10), samplePeriod |-> FromRatio(1, 256)]

\* dict.update(kwargs) (line 27): the keys passed are overwritten.
DictUpdate(d, kw) ==
    [beta |-> IF kw.beta = Absent THEN d.beta ELSE kw.beta,
     samplePeriod |-> IF kw.samplePeriod = Absent THEN d.samplePeriod ELSE kw.samplePeriod]

\* Mutant: an override counts only when both beta and samplePeriod are passed.
ResolveJoint(kw, d, key) ==
    IF kw.beta = Absent \/ kw.samplePeriod = Absent THEN d[key] ELSE kw[key]

\* Mutant: the stored value is read whatever was passed.
ResolveStored(kw, d, key) == d[key]

\* kwargs[key] if key in kwargs.keys() else self.__dict__[key] (lines 55-56, 108-109).
Resolve(kw, d, key) == IF kw[key] = Absent THEN d[key] ELSE kw[key]

----------------------------------------------------------------------------
(* State *)

\* The filter instances the program may construct.
NumFilters == 2

Filters == 1..NumFilters

\* The two sensor streams (threads) of the concurrent specification.
Streams == {"s1", "s2"}

VARIABLES
    clsDict,    \* the dict bound to the name __dict__ in the class body (line 22)
    made,       \* per instance: whether it was constructed, and with which kwargs
    last,       \* the update call the caller made last, with the arrays it passed
                \* and what the call left in them
    memo,       \* an earlier update call the caller remembers
    th          \* per stream: the thread updating it (concurrent specification)

vars == <<clsDict, made, last, memo, th>>

\* self.__dict__ of instance f.  The class defines the attribute __dict__ itself
\* (line 22), and a plain dict is no data descriptor, so the lookup self.__dict__
\* finds that class attribute: one dict object, the same for every instance.
SelfDict(f) == clsDict

NoCall ==
    [op |-> "none", f |-> 0, kw |-> NoKw, beta |-> Absent, samplePeriod |-> Absent,
     cfg0 |-> DefaultDict, cfg |-> DefaultDict,
     g0 |-> <<>>, a0 |-> <<>>, m0 |-> <<>>, q0 |-> <<>>,
     g |-> <<>>, a |-> <<>>, m |-> <<>>, q |-> <<>>, ret |-> <<>>, outcome |-> "none"]

\* The record of a finished call: the arguments (g0, a0, m0, q0: the arrays as the
\* caller passed them), the locals beta and samplePeriod, self.__dict__ before and
\* after, and the outcome r.
CallRecord(op, f, kw, beta, samplePeriod, d0, d, g, a, m, q, r) ==
    [op |-> op, f |-> f, kw |-> kw, beta |-> beta, samplePeriod |-> samplePeriod,
     cfg0 |-> d0, cfg |-> d,
     g0 |-> g, a0 |-> a, m0 |-> m, q0 |-> q,
     g |-> r.g, a |-> r.a, m |-> r.m, q |-> r.q, ret |-> r.ret, outcome |-> r.outcome]

\* What the caller remembers of an earlier call: the operation, the arguments, the
\* array returned, and what self.__dict__ held when the call began.
NoMemo ==
    [op |-> "none", kw |-> NoKw, cfg0 |-> DefaultDict,
     g0 |-> <<>>, a0 |-> <<>>, m0 |-> <<>>, q0 |-> <<>>, ret |-> <<>>]

\* A thread that has made no call yet: its position pc in the update it is running,
\* the number n of calls it finished, the operation and kwargs of its call, the
\* locals beta, samplePeriod and qDot, the arrays g, a, m, q its caller holds, the
\* array returned, what the call would leave behind had it run with no other thread
\* (alone), and whether another thread was ever inside a call when this one returned.
ThreadIdle ==
    [pc |-> "idle", n |-> 0, op |-> "none", kw |-> NoKw,
     beta |-> Absent, samplePeriod |-> Absent,
     g |-> <<>>, a |-> <<>>, m |-> <<>>, q |-> <<>>, qDot |-> <<>>, ret |-> <<>>,
     alone |-> Outcome(<<>>, <<>>, <<>>, <<>>), mixed |-> FALSE]

Init ==
    /\ clsDict = DefaultDict
    /\ made = [f \in Filters |-> [made |-> FALSE, kw |-> NoKw]]
    /\ last = NoCall
    /\ memo = NoMemo
    /\ th = [s \in Streams |-> ThreadIdle]

----------------------------------------------------------------------------
(* Operations *)

\* Madgwick(**kw) (lines 26-27): instance f is created, and its kwargs go into
\* self.__dict__.  Instances are numbered in the order of their creation.
Construct(f, kw) ==
    /\ ~made[f].made
    /\ \A e \in Filters : e < f => made[e].made
    /\ made' = [made EXCEPT ![f] = [made |-> TRUE, kw |-> kw]]
    /\ clsDict' = DictUpdate(SelfDict(f), kw)
    /\ UNCHANGED <<last, memo, th>>

\* f.updateIMU(g, a, q, **kw) (lines 29-78), the whole call.
UpdateIMU(f, g, a, q, kw) ==
    /\ made[f].made
    /\ last = NoCall
    /\ UNCHANGED <<clsDict, made, memo, th>>
    /\ LET beta == Resolve(kw, SelfDict(f), "beta")
           samplePeriod == Resolve(kw, SelfDict(f), "samplePeriod")
           r == IMUBody(g, a, q, beta, samplePeriod)
       IN  last' = CallRecord("updateIMU", f, kw, beta, samplePeriod,
                              SelfDict(f), SelfDict(f)', g, a, <<>>, q, r)

\* f.updateMARG(g, a, m, q, **kw) (lines 80-146), the whole call.
UpdateMARG(f, g, a, m, q, kw) ==
    /\ made[f].made
    /\ last = NoCall
    /\ UNCHANGED <<clsDict, made, memo, th>>
    /\ LET beta == Resolve(kw, SelfDict(f), "beta")
           samplePeriod == Resolve(kw, SelfDict(f), "samplePeriod")
           r == MARGBody(g, a, m, q, beta, samplePeriod)
       IN  last' = CallRecord("updateMARG", f, kw, beta, samplePeriod,
                              SelfDict(f), SelfDict(f)', g, a, m, q, r)

\* The caller is done with the arrays of its last call and drops them.
Discard ==
    /\ last # NoCall
    /\ last' = NoCall
    /\ UNCHANGED <<clsDict, made, memo, th>>

\* The caller notes the arguments and the result of the call it just made, when
\* that call passed both beta and samplePeriod.
Remember ==
    /\ memo = NoMemo
    /\ last # NoCall
    /\ last.kw.beta # Absent /\ last.kw.samplePeriod # Absent
    /\ memo' = [op |-> last.op, kw |-> last.kw, cfg0 |-> last.cfg0,
                g0 |-> last.g0, a0 |-> last.a0, m0 |-> last.m0, q0 |-> last.q0,
                ret |-> last.ret]
    /\ UNCHANGED <<clsDict, made, last, th>>

----------------------------------------------------------------------------
(* Inputs *)

V3(x, y, z) == << FromInt(x), FromInt(y), FromInt(z) >>
Q4(w, x, y, z) == << FromInt(w), FromInt(x), FromInt(y), FromInt(z) >>

Identity == Q4(1, 0, 0, 0)

\* Per-call and constructor overrides: beta = 0.5, samplePeriod = 0.25.
BetaSet == {Absent, FromRatio(1, 2)}
PeriodSet == {Absent, FromRatio(1, 4)}
KwSet == {Kw(b, s) : b \in BetaSet, s \in PeriodSet}

GyroSet == {V3(1, 0, 0), << Inf(1), Zero, Zero >>}
AccelSet == {V3(0, 0, 0), V3(0, 0, 1), V3(3, 0, 4), << NaN, Zero, FromInt(1) >>}
MagSet == {V3(0, 0, 0), V3(2, 0, 0)}
QuatSet == {Identity, Q4(0, 2, 0, 0), << FromInt(1), Zero, NaN, Zero >>}

Next ==
    \/ \E f \in Filters, kw \in KwSet : Construct(f, kw)
    \/ \E f \in Filters, g \in GyroSet, a \in AccelSet, q \in QuatSet, kw \in KwSet :
           UpdateIMU(f, g, a, q, kw)
    \/ \E f \in Filters, g \in GyroSet, a \in AccelSet, m \in MagSet, q \in QuatSet,
          kw \in KwSet : UpdateMARG(f, g, a, m, q, kw)
    \/ Discard

Spec == Init /\ [][Next]_vars

\* The specification of the determinism claim: the caller also remembers one call,
\* and draws the arguments of its calls from fewer values.
NextDet ==
    \/ \E f \in Filters, kw \in KwSet : Construct(f, kw)
    \/ \E f \in Filters, a \in {V3(0, 0, 1), V3(3, 0, 4)}, q \in {Identity, Q4(0, 2, 0, 0)},
          kw \in {NoKw, Kw(FromRatio(1, 2), FromRatio(1, 4))} :
           UpdateIMU(f, V3(1, 0, 0), a, q, kw)
    \/ \E f \in Filters, a \in {V3(0, 0, 1), V3(3, 0, 4)}, q \in {Identity, Q4(0, 2, 0, 0)},
          kw \in {NoKw, Kw(FromRatio(1, 2), FromRatio(1, 4))} :
           UpdateMARG(f, V3(1, 0, 0), a, V3(2, 0, 0), q, kw)
    \/ Discard
    \/ Remember

SpecDet == Init /\ [][NextDet]_vars

----------------------------------------------------------------------------
(* Concurrent updates: one thread per stream, all calling the same instance *)

\* Calls each thread makes on its stream.
MaxCalls == 2

\* The instance the threads share.
Shared == 1

IsIMU(t) == t.op = "updateIMU"

\* What the call of thread t leaves behind when nothing else runs during it.
Alone(op, g, a, m, q, kw) ==
    LET beta == Resolve(kw, SelfDict(Shared), "beta")
        samplePeriod == Resolve(kw, SelfDict(Shared), "samplePeriod")
    IN  IF op = "updateIMU" THEN IMUBody(g, a, q, beta, samplePeriod)
        ELSE MARGBody(g, a, m, q, beta, samplePeriod)

\* The caller of stream s passes fresh sample arrays and the quaternion it holds.
Call(s, op, g, a, m, kw) ==
    /\ th[s].pc = "idle"
    /\ th[s].n < MaxCalls
    /\ th' = [th EXCEPT ![s] = [@ EXCEPT !.pc = "beta", !.op = op, !.kw = kw,
                                         !.g = g, !.a = a, !.m = m,
                                         !.alone = Alone(op, g, a, m, th[s].q, kw)]]
    /\ UNCHANGED <<clsDict, made, last, memo>>

\* Mutant: the override read is also stored (self.__dict__.update(kwargs)).
ReadBetaStoring(s) ==
    /\ th[s].pc = "beta"
    /\ th' = [th EXCEPT ![s] = [@ EXCEPT !.pc = "period",
                                         !.beta = Resolve(th[s].kw, SelfDict(Shared), "beta")]]
    /\ clsDict' = DictUpdate(SelfDict(Shared), th[s].kw)
    /\ UNCHANGED <<made, last, memo>>

\* Line 55 / 108.
ReadBeta(s) ==
    /\ th[s].pc = "beta"
    /\ th' = [th EXCEPT ![s] = [@ EXCEPT !.pc = "period",
                                         !.beta = Resolve(th[s].kw, SelfDict(Shared), "beta")]]
    /\ UNCHANGED <<clsDict, made, last, memo>>

\* Line 56 / 109.
ReadPeriod(s) ==
    /\ th[s].pc = "period"
    /\ th' = [th EXCEPT ![s] = [@ EXCEPT !.pc = "accel",
                   !.samplePeriod = Resolve(th[s].kw, SelfDict(Shared), "samplePeriod")]]
    /\ UNCHANGED <<clsDict, made, last, memo>>

\* Lines 57-60 / 111-114.
NormAccel(s) ==
    /\ th[s].pc = "accel"
    /\ LET a_norm == Norm(th[s].a)
       IN  th' = [th EXCEPT ![s] =
                    IF FEqZero(a_norm) THEN [@ EXCEPT !.pc = "return"]
                    ELSE [@ EXCEPT !.pc = IF IsIMU(th[s]) THEN "quat" ELSE "mag",
                                   !.a = VDiv(th[s].a, a_norm)]]
    /\ UNCHANGED <<clsDict, made, last, memo>>

\* Lines 116-119.
NormMag(s) ==
    /\ th[s].pc = "mag"
    /\ LET m_norm == Norm(th[s].m)
       IN  th' = [th EXCEPT ![s] =
                    IF FEqZero(m_norm) THEN [@ EXCEPT !.pc = "return"]
                    ELSE [@ EXCEPT !.pc = "quat", !.m = VDiv(th[s].m, m_norm)]]
    /\ UNCHANGED <<clsDict, made, last, memo>>

\* Line 62 / 121.
NormQuat(s) ==
    /\ th[s].pc = "quat"
    /\ th' = [th EXCEPT ![s] = [@ EXCEPT !.pc = "gradient",
                                         !.q = VDiv(th[s].q, Norm(th[s].q))]]
    /\ UNCHANGED <<clsDict, made, last, memo>>

\* Lines 63-74 / 122-142.
Gradient(s) ==
    /\ th[s].pc = "gradient"
    /\ LET t == th[s]
           step0 == IF IsIMU(t) THEN StepIMU(t.a, t.q) ELSE StepMARG(t.a, t.m, t.q)
       IN  th' = [th EXCEPT ![s] = [@ EXCEPT !.pc = "advance",
                                             !.qDot = QDot(t.g, t.q, step0, t.beta)]]
    /\ UNCHANGED <<clsDict, made, last, memo>>

\* Line 76 / 144.
AdvanceQuat(s) ==
    /\ th[s].pc = "advance"
    /\ th' = [th EXCEPT ![s] = [@ EXCEPT !.pc = "renorm",
                   !.q = Advance(th[s].q, th[s].qDot, th[s].samplePeriod)]]
    /\ UNCHANGED <<clsDict, made, last, memo>>

\* Line 77 / 145.
Renorm(s) ==
    /\ th[s].pc = "renorm"
    /\ th' = [th EXCEPT ![s] = [@ EXCEPT !.pc = "return",
                                         !.q = VDiv(th[s].q, Norm(th[s].q))]]
    /\ UNCHANGED <<clsDict, made, last, memo>>

\* Line 59, 78 / 113, 118, 146: return q.
Return(s) ==
    /\ th[s].pc = "return"
    /\ th' = [th EXCEPT ![s] = [@ EXCEPT !.pc = "idle", !.n = @ + 1, !.ret = th[s].q,
                   !.mixed = @ \/ \E o \in Streams \ {s} : th[o].pc # "idle"]]
    /\ UNCHANGED <<clsDict, made, last, memo>>

\* The shared instance has been constructed, and every stream starts from the
\* identity quaternion.
InitConc ==
    /\ \E kw \in {NoKw, Kw(FromRatio(1, 2), FromRatio(1, 4))} :
          /\ clsDict = DictUpdate(DefaultDict, kw)
          /\ made = [f \in Filters |-> IF f = Shared THEN [made |-> TRUE, kw |-> kw]
                                       ELSE [made |-> FALSE, kw |-> NoKw]]
    /\ last = NoCall
    /\ memo = NoMemo
    /\ th = [s \in Streams |-> [ThreadIdle EXCEPT !.q = Identity]]

NextConc ==
    \/ \E s \in Streams : Call(s, "updateIMU", V3(1, 0, 0), V3(3, 0, 4), <<>>, NoKw)
    \/ \E s \in Streams : Call(s, "updateMARG", V3(0, 1, 0), V3(0, 0, 1), V3(0, 2, 0),
                               Kw(FromRatio(1, 2), Absent))
    \/ \E s \in Streams :
          \/ ReadBeta(s)
          \/ ReadPeriod(s)
          \/ NormAccel(s)
          \/ NormMag(s)
          \/ NormQuat(s)
          \/ Gradient(s)
          \/ AdvanceQuat(s)
          \/ Renorm(s)
          \/ Return(s)

SpecConc == InitConc /\ [][NextConc]_vars

----------------------------------------------------------------------------
(* Claims *)

IsUpdate(c) == c.op \in {"updateIMU", "updateMARG"}
ZeroNorm(v) == FEqZero(Norm(v))

\* C1: updateIMU with an accelerometer sample of norm zero returns the prior
\* quaternion exactly as passed (not normalised, not integrated), for every gyro
\* sample, every q and every configuration.
C1_ZeroAccelReturnsPrior ==
    (last.op = "updateIMU" /\ ZeroNorm(last.a0))
        => (last.outcome = "return" /\ last.ret = last.q0 /\ last.q = last.q0)

\* A zero-accel updateIMU call on a non-unit q with a per-call beta has returned.
C1_Witness ==
    /\ last.op = "updateIMU" /\ last.a0 = V3(0, 0, 0)
    /\ last.q0 = Q4(0, 2, 0, 0) /\ last.kw.beta # Absent
    /\ last.ret = Q4(0, 2, 0, 0)

\* C2: updateMARG returns the prior quaternion exactly as passed whenever the
\* accelerometer sample or the magnetometer sample has norm zero.
C2_ZeroReferenceReturnsPrior ==
    (last.op = "updateMARG" /\ (ZeroNorm(last.a0) \/ ZeroNorm(last.m0)))
        => (last.outcome = "return" /\ last.ret = last.q0 /\ last.q = last.q0)

\* An updateMARG call with a non-zero accel and a zero mag on a non-unit q has
\* returned.
C2_Witness ==
    /\ last.op = "updateMARG" /\ last.a0 = V3(3, 0, 4) /\ last.m0 = V3(0, 0, 0)
    /\ last.q0 = Q4(0, 2, 0, 0)
    /\ last.ret = Q4(0, 2, 0, 0)

\* step = J.T @ F of the call c, as the call computes it from its arguments.
StepOf(c) ==
    LET a1 == VDiv(c.a0, Norm(c.a0))
        q1 == VDiv(c.q0, Norm(c.q0))
    IN  IF c.op = "updateIMU" THEN StepIMU(a1, q1)
        ELSE StepMARG(a1, VDiv(c.m0, Norm(c.m0)), q1)

\* The call c got past the zero-norm checks and its descent direction has norm zero.
DegenerateGradient(c) ==
    /\ IsUpdate(c)
    /\ ~ZeroNorm(c.a0)
    /\ c.op = "updateMARG" => ~ZeroNorm(c.m0)
    /\ ZeroNorm(StepOf(c))

\* q + 0.5 * q_prod(q, [0, g]) * samplePeriod, renormalised, q normalised first.
GyroOnly(g, q, samplePeriod) ==
    LET q1 == VDiv(q, Norm(q))
        q2 == Advance(q1, VScale(Half, q_prod(q1, <<Zero, g[1], g[2], g[3]>>)), samplePeriod)
    IN  VDiv(q2, Norm(q2))

\* C3: when the descent direction has norm zero, the update does not divide by that
\* norm: the returned quaternion is the pure gyro integration, and has no NaN
\* component (for a finite gyro sample).
C3_DegenerateGradientGuarded ==
    DegenerateGradient(last)
        => /\ last.ret = GyroOnly(last.g0, last.q0, last.samplePeriod)
           /\ AllFinite(last.g0) => ~AnyNaN(last.ret)

\* q is finite and its norm is 1 to within 2^-8.
UnitNorm(q) == AllFinite(q) /\ Abs(Norm(q).v - Scale) * 256 <= Scale

FiniteInputs(c) == AllFinite(c.g0) /\ AllFinite(c.a0) /\ AllFinite(c.m0) /\ AllFinite(c.q0)

\* C4: for finite inputs and non-zero accelerometer (and magnetometer) samples, the
\* quaternion an update returns has norm 1, normalised input or not.
C4_ReturnedQuaternionIsUnit ==
    (/\ IsUpdate(last) /\ FiniteInputs(last)
     /\ ~ZeroNorm(last.a0)
     /\ last.op = "updateMARG" => ~ZeroNorm(last.m0))
        => UnitNorm(last.ret)

\* C5: the beta and samplePeriod an instance uses by default are the ones it was
\* constructed with (0.1 and 1/256 where it was given none), whatever was
\* constructed or called since.
C5_ConfigFixedAtConstruction ==
    \A f \in Filters : made[f].made => SelfDict(f) = DictUpdate(DefaultDict, made[f].kw)

\* The value the call c must have used for key: the override passed, or else the
\* value stored when the call began.
Expected(c, key) == IF c.kw[key] = Absent THEN c.cfg0[key] ELSE c.kw[key]

\* The outcome of the call c recomputed with the given beta and samplePeriod.
Recomputed(c, beta, samplePeriod) ==
    IF c.op = "updateIMU" THEN IMUBody(c.g0, c.a0, c.q0, beta, samplePeriod)
    ELSE MARGBody(c.g0, c.a0, c.m0, c.q0, beta, samplePeriod)

\* C6: each update uses the per-call override of beta and of samplePeriod when one
\* is passed and the stored value otherwise, each resolved on its own, and leaves
\* the stored configuration as it was.
C6_OverrideResolvedPerCall ==
    IsUpdate(last)
        => /\ last.beta = Expected(last, "beta")
           /\ last.samplePeriod = Expected(last, "samplePeriod")
           /\ last.ret = Recomputed(last, Expected(last, "beta"),
                                    Expected(last, "samplePeriod")).ret
           /\ last.cfg = last.cfg0

\* A call that overrode samplePeriod alone, on a filter whose stored beta is not the
\* class default, has returned a finite quaternion.
C6_Witness ==
    /\ IsUpdate(last)
    /\ last.kw.beta = Absent /\ last.kw.samplePeriod = FromRatio(1, 4)
    /\ last.cfg0.beta = FromRatio(1, 2) /\ last.beta = FromRatio(1, 2)
    /\ last.samplePeriod = FromRatio(1, 4)
    /\ AllFinite(last.ret) /\ last.ret # last.q0

NonFiniteInput(c) == IsUpdate(c) /\ ~FiniteInputs(c)

\* C7: an update given a non-finite component in g, a, m or q ends with a reported
\* error, and returns no quaternion.
C7_NonFiniteInputRejected == NonFiniteInput(last) => last.outcome # "return"

\* C8: two calls of the same operation with the same arguments and the same
\* explicit beta and samplePeriod return the same quaternion, whatever was
\* constructed or called in between.
C8_SameCallSameResult ==
    (/\ memo.op # "none" /\ last.op = memo.op
     /\ last.kw = memo.kw
     /\ last.g0 = memo.g0 /\ last.a0 = memo.a0 /\ last.m0 = memo.m0 /\ last.q0 = memo.q0)
        => last.ret = memo.ret

\* A remembered call was repeated after the stored configuration had changed, and
\* returned a finite quaternion other than its argument.
C8_Witness ==
    /\ memo.op # "none" /\ last.op = memo.op /\ last.kw = memo.kw
    /\ last.g0 = memo.g0 /\ last.a0 = memo.a0 /\ last.m0 = memo.m0 /\ last.q0 = memo.q0
    /\ last.cfg0 # memo.cfg0
    /\ AllFinite(last.ret) /\ last.ret # last.q0

\* C10: an update leaves the caller's gyro, accelerometer and magnetometer arrays
\* holding the values they held before the call, on every path.
C10_SamplesUnchanged ==
    IsUpdate(last) => (last.g = last.g0 /\ last.a = last.a0 /\ last.m = last.m0)

\* C9: streams updated concurrently without locking each get the quaternions they
\* get when updated alone: every finished call left in its caller's arrays, and
\* returned, what it leaves when run alone, and the configuration is as constructed.
C9_StreamsIndependent ==
    /\ \A s \in Streams :
          (th[s].pc = "idle" /\ th[s].n > 0)
              => /\ th[s].ret = th[s].alone.ret
                 /\ th[s].q = th[s].alone.q
                 /\ th[s].g = th[s].alone.g
                 /\ th[s].a = th[s].alone.a
                 /\ th[s].m = th[s].alone.m
    /\ \A s \in Streams : th[s].n > 0 => clsDict = DictUpdate(DefaultDict, made[Shared].kw)

\* Both streams have finished two calls, each returned from a call while the other
\* was inside one, and each holds a finite quaternion.
C9_Witness ==
    \A s \in Streams :
        /\ th[s].pc = "idle" /\ th[s].n >= 2 /\ th[s].mixed
        /\ AllFinite(th[s].ret) /\ th[s].ret # Identity

=============================================================================
